---- MODULE Spec2Model ----
(***************************************************************************)
(* Model of the scalar reverse-mode differentiation engine of              *)
(* src/src/micrograd/lib.py (class Value): the forward operations that     *)
(* build the operand graph, and backward(): build_topo's depth-first       *)
(* traversal, the seed and the reversed loop that invokes each node's      *)
(* _backward closure.                                                      *)
(*                                                                         *)
(* Numbers are rationals <<n, d>> in lowest terms.  The variable sig is    *)
(* the significand width of the arithmetic: every arithmetic result is     *)
(* rounded to sig bits (nearest, ties to even), and sig = 0 stands for     *)
(* arithmetic that does not round.                                         *)
(*                                                                         *)
(* Spec      a client that wraps its numbers and uses +, * and **,         *)
(*           arithmetic that does not round;                               *)
(* SpecRound the same client, sig = Precision: a short significand that    *)
(*           makes the rounding of Python's floats reachable with small    *)
(*           numbers;                                                      *)
(* SpecOps   a client that uses every operator of the class, with numbers  *)
(*           in place of Values and with the calls that raise.             *)
(***************************************************************************)
EXTENDS Integers, Sequences, FiniteSets, TLC

VARIABLES
    nodes,   \* the Value objects, in order of construction
    err,     \* the exception the last call raised ("": it returned)
    call,    \* the last call
    sig,     \* significand bits of the arithmetic (0: no rounding)
    root,    \* the Value the last call, a backward(), started at (0: none)
    fired,   \* the nodes whose _backward that call invoked, in order
    grad0,   \* the grads before that call
    pass,    \* how many backward() calls in a row root has had, the first
             \* one with every grad 0 (0: not such a row)
    nbw,     \* backward() calls so far
    ncalls   \* calls so far of a client that SpecOps bounds by MaxCalls

vars == <<nodes, err, call, sig, root, fired, grad0, pass, nbw, ncalls>>

(* ------------------------------- bounds -------------------------------- *)

\* Most Value objects ever constructed.
MaxNodes == 4

\* Most backward() calls in one run.
MaxBackward == 2

\* Most calls in one run of SpecOps, whose client uses every operator.
MaxCalls == 4

\* Forward results are explored while |numerator| and denominator of the new
\* data stay within this number.
MaxData == 16

\* Significand bits of the rounding arithmetic of SpecRound.
Precision == 2

\* Numbers the client wraps with Value(x).
LeafVals == {0, 2, 3}

\* Raw numbers the client passes in place of a Value.
Scalars == {0, 2}

\* Exponents the client passes to **.
Exponents == {0, 2}

(* ----------------------------- arithmetic ------------------------------ *)

Abs(n) == IF n < 0 THEN -n ELSE n

RECURSIVE GCD(_, _)
GCD(a, b) == IF b = 0 THEN a ELSE GCD(b, a % b)

\* The rational n/d (d # 0) in lowest terms with a positive denominator.
Norm(n, d) ==
    LET g == GCD(Abs(n), Abs(d))
        s == IF d < 0 THEN -1 ELSE 1
    IN  <<(s * n) \div g, (s * d) \div g>>

Q(n) == <<n, 1>>
Zero == Q(0)
One == Q(1)

QAdd(a, b) == Norm(a[1] * b[2] + b[1] * a[2], a[2] * b[2])
QMul(a, b) == Norm(a[1] * b[1], a[2] * b[2])
QNeg(a) == <<-a[1], a[2]>>
QSub(a, b) == QAdd(a, QNeg(b))
QInv(a) == Norm(a[2], a[1])

RECURSIVE QPowNat(_, _)
QPowNat(a, k) == IF k = 0 THEN One ELSE QMul(a, QPowNat(a, k - 1))

\* Python raises ZeroDivisionError for zero to a negative power.
PowDefined(a, k) == ~(a = Zero /\ k < 0)

\* a ** k for an integer k, where PowDefined(a, k); 0 ** 0 is 1.
QPow(a, k) == IF k >= 0 THEN QPowNat(a, k) ELSE QInv(QPowNat(a, -k))

RECURSIVE Pow2(_)
Pow2(k) == IF k = 0 THEN 1 ELSE 2 * Pow2(k - 1)

\* The positive rational n/d rounded to p significand bits, nearest with
\* ties to even: n/d is scaled by 2^e into [2^(p-1), 2^p), rounded to an
\* integer m, and the result is m * 2^e.
RECURSIVE RoundPos(_, _, _, _)
RoundPos(n, d, p, e) ==
    IF n < d * Pow2(p - 1) THEN RoundPos(2 * n, d, p, e - 1)
    ELSE IF n >= d * Pow2(p) THEN RoundPos(n, 2 * d, p, e + 1)
    ELSE LET m == n \div d
             r == n - m * d
             up == IF 2 * r > d THEN 1
                   ELSE IF 2 * r = d THEN m % 2
                   ELSE 0
         IN  IF e >= 0 THEN Norm((m + up) * Pow2(e), 1)
             ELSE Norm(m + up, Pow2(-e))

\* A result of the arithmetic, rounded to p significand bits (p = 0: kept).
Round(a, p) ==
    IF p = 0 \/ a = Zero THEN a
    ELSE IF a[1] < 0 THEN QNeg(RoundPos(-a[1], a[2], p, 0))
    ELSE RoundPos(a[1], a[2], p, 0)

FAdd(a, b, p) == Round(QAdd(a, b), p)
FMul(a, b, p) == Round(QMul(a, b), p)
FSub(a, b, p) == Round(QSub(a, b), p)
FPow(a, k, p) == Round(QPow(a, k), p)

Small(a) == Abs(a[1]) <= MaxData /\ a[2] <= MaxData

(* ------------------------------ Value ---------------------------------- *)

\* An operand of an operator expression: a Value (by its handle, the place
\* of the object in nodes) or a raw Python number.
Val(i) == [isValue |-> TRUE, id |-> i, val |-> Zero]
Num(q) == [isValue |-> FALSE, id |-> 0, val |-> q]

\* Value.__init__: grad 0.0, _backward the no-op lambda (no captured
\* operands), _prev the set of the children.  self, other and k are the
\* variables a later _backward closure captures (k: the exponent of **).
__init__(data, _children, _op) ==
    [data |-> data, grad |-> Zero, prev |-> _children, op |-> _op,
     self |-> 0, other |-> 0, k |-> 0]

\* What a method call yields: the objects after it, the handle of the
\* returned Value (0: none) and the exception raised ("": none).
Returned(ns, out) == [ns |-> ns, out |-> out, err |-> ""]
Raised(ns, e) == [ns |-> ns, out |-> 0, err |-> e]

\* other = other if isinstance(other, Value) else Value(other)
Coerce(ns, other) ==
    IF other.isValue THEN [ns |-> ns, id |-> other.id]
    ELSE [ns |-> Append(ns, __init__(other.val, {}, "")), id |-> Len(ns) + 1]

\* A + that also sets self.grad to 0.
AddResetting(ns, s, other) ==
    LET w == Coerce(ns, other)
        out == __init__(FAdd(w.ns[s].data, w.ns[w.id].data, sig), {s, w.id}, "+")
    IN  Returned(Append([w.ns EXCEPT ![s].grad = Zero],
                        [out EXCEPT !.self = s, !.other = w.id]),
                 Len(w.ns) + 1)

__add__(ns, s, other) ==
    LET w == Coerce(ns, other)
        out == __init__(FAdd(w.ns[s].data, w.ns[w.id].data, sig), {s, w.id}, "+")
    IN  Returned(Append(w.ns, [out EXCEPT !.self = s, !.other = w.id]),
                 Len(w.ns) + 1)

__mul__(ns, s, other) ==
    LET w == Coerce(ns, other)
        out == __init__(FMul(w.ns[s].data, w.ns[w.id].data, sig), {s, w.id}, "*")
    IN  Returned(Append(w.ns, [out EXCEPT !.self = s, !.other = w.id]),
                 Len(w.ns) + 1)

\* A ** without the assert on the exponent: a Value exponent is taken as 0.
PowUnchecked(ns, s, other) ==
    LET out == __init__(FPow(ns[s].data, 0, sig), {s}, "**")
    IN  Returned(Append(ns, [out EXCEPT !.self = s]), Len(ns) + 1)

\* The exponents modelled are integers (other.val = <<k, 1>>).
__pow__(ns, s, other) ==
    IF other.isValue THEN Raised(ns, "AssertionError")
    ELSE IF ~PowDefined(ns[s].data, other.val[1]) THEN Raised(ns, "ZeroDivisionError")
    ELSE LET out == __init__(FPow(ns[s].data, other.val[1], sig), {s}, "**")
         IN  Returned(Append(ns, [out EXCEPT !.self = s, !.k = other.val[1]]),
                      Len(ns) + 1)

__radd__(ns, s, other) == __add__(ns, s, other)

__rmul__(ns, s, other) == __mul__(ns, s, other)

\* self * (other ** -1): other ** -1 is Value.__pow__ for a Value and Python's
\* own power for a number.
__truediv__(ns, s, other) ==
    IF other.isValue
    THEN LET p == __pow__(ns, other.id, Num(Q(-1)))
         IN  IF p.err # "" THEN p ELSE __mul__(p.ns, s, Val(p.out))
    ELSE IF ~PowDefined(other.val, -1) THEN Raised(ns, "ZeroDivisionError")
    ELSE __mul__(ns, s, Num(FPow(other.val, -1, sig)))

__neg__(ns, s) == __mul__(ns, s, Num(Q(-1)))

\* self + (-other)
__sub__(ns, s, other) ==
    IF other.isValue
    THEN LET n == __neg__(ns, other.id) IN __add__(n.ns, s, Val(n.out))
    ELSE __add__(ns, s, Num(QNeg(other.val)))

\* other + (-self), other a number: Python evaluates number + Value with
\* Value.__radd__.
__rsub__(ns, s, other) ==
    LET n == __neg__(ns, s) IN __radd__(n.ns, n.out, other)

\* math.exp where its value is rational.
MathExp(x) == CASE x = Zero -> One

tanh(ns, s) ==
    LET x == ns[s].data
        t == Round(QMul(QSub(MathExp(QMul(Q(2), x)), One),
                        QInv(QAdd(MathExp(QMul(Q(2), x)), One))), sig)
        out == __init__(t, {s}, "tanh")
    IN  Returned(Append(ns, [out EXCEPT !.self = s]), Len(ns) + 1)

exp(ns, s) ==
    LET out == __init__(MathExp(ns[s].data), {s}, "exp")
    IN  Returned(Append(ns, [out EXCEPT !.self = s]), Len(ns) + 1)

\* The methods class Value defines for the binary operators, and the
\* reflected ones (tried when the left operand is a number).
Method(name, ns, s, other) ==
    CASE name = "+" -> __add__(ns, s, other)
      [] name = "*" -> __mul__(ns, s, other)
      [] name = "-" -> __sub__(ns, s, other)
      [] name = "/" -> __truediv__(ns, s, other)
      [] name = "**" -> __pow__(ns, s, other)

Reflected == {"+", "*", "-"}

RMethod(name, ns, s, other) ==
    CASE name = "+" -> __radd__(ns, s, other)
      [] name = "*" -> __rmul__(ns, s, other)
      [] name = "-" -> __rsub__(ns, s, other)

\* The expression  x <name> y  with at least one Value operand: the left
\* operand's method, or, for a number on the left, the right operand's
\* reflected method; TypeError when the class defines none.
BinaryOp(name, ns, x, y) ==
    IF x.isValue THEN Method(name, ns, x.id, y)
    ELSE IF name \in Reflected THEN RMethod(name, ns, y.id, x)
    ELSE Raised(ns, "TypeError")

(* ---------------------------- _backward -------------------------------- *)

\* target.grad = term
Overwrite(ns, target, term) == [ns EXCEPT ![target].grad = term]

\* target.grad += term
Accumulate(ns, target, term) ==
    [ns EXCEPT ![target].grad = FAdd(@, term, sig)]

\* The closure of __add__, for out = n: its statements run in order, each
\* reading the grads as they are.
AddBackward(ns, n) ==
    LET n1 == Accumulate(ns, ns[n].self, FMul(One, ns[n].grad, sig))
    IN  Accumulate(n1, ns[n].other, FMul(One, n1[n].grad, sig))

\* The closure of __mul__.
MulBackward(ns, n) ==
    LET s == ns[n].self
        o == ns[n].other
        n1 == Accumulate(ns, s, FMul(ns[o].data, ns[n].grad, sig))
    IN  Accumulate(n1, o, FMul(n1[s].data, n1[n].grad, sig))

\* A local derivative of ** without the factor other.
PowLocalNoFactor(x, k) == FPow(x, k - 1, sig)

\* other * (self.data ** (other - 1)), where the power is defined.
PowLocal(x, k) == FMul(Q(k), FPow(x, k - 1, sig), sig)

\* The closure of __pow__.
PowBackward(ns, n) ==
    Accumulate(ns, ns[n].self,
               FMul(PowLocal(ns[ns[n].self].data, ns[n].k), ns[n].grad, sig))

\* The closure of tanh: t is the data of out.
TanhBackward(ns, n) ==
    Accumulate(ns, ns[n].self,
               FMul(FSub(One, FPow(ns[n].data, 2, sig), sig), ns[n].grad, sig))

\* The closure of exp.
ExpBackward(ns, n) ==
    Accumulate(ns, ns[n].self, FMul(ns[n].data, ns[n].grad, sig))

\* Whether node n's _backward raises: ZeroDivisionError, from
\* self.data ** (other - 1) in the closure of __pow__.
BackwardRaises(ns, n) ==
    ns[n].op = "**" /\ ~PowDefined(ns[ns[n].self].data, ns[n].k - 1)

\* node._backward(), where it does not raise: the closure the operation that
\* made the node installed, lambda: None for a leaf.
_backward(ns, n) ==
    CASE ns[n].op = "+" -> AddBackward(ns, n)
      [] ns[n].op = "*" -> MulBackward(ns, n)
      [] ns[n].op = "**" -> PowBackward(ns, n)
      [] ns[n].op = "tanh" -> TanhBackward(ns, n)
      [] ns[n].op = "exp" -> ExpBackward(ns, n)
      [] OTHER -> ns

(* ------------------------------ backward ------------------------------- *)

\* A traversal that does not consult visited.
AlwaysUnvisited(v, seen) == TRUE

\* if v not in visited
Unvisited(v, seen) == v \notin seen

\* build_topo(v), entered with visited and topo_sorted as in st: every
\* (visited, topo_sorted) it can return with.  The loop over the set v._prev
\* runs in an order the language does not fix: ForChildren takes, as the next
\* child, any child not yet taken.
RECURSIVE build_topo(_, _, _), ForChildren(_, _, _)
build_topo(ns, v, st) ==
    IF Unvisited(v, st.visited)
    THEN {[s EXCEPT !.topo_sorted = Append(@, v)] :
             s \in ForChildren(ns, ns[v].prev, [st EXCEPT !.visited = @ \cup {v}])}
    ELSE {st}

ForChildren(ns, todo, st) ==
    IF todo = {} THEN {st}
    ELSE UNION {UNION {ForChildren(ns, todo \ {child}, s) :
                          s \in build_topo(ns, child, st)} : child \in todo}

\* The values topo_sorted can have after build_topo(self).
TopoOrders(ns, r) ==
    {st.topo_sorted : st \in build_topo(ns, r, [visited |-> {}, topo_sorted |-> <<>>])}

\* topo_sorted as it is.
Unreversed(order) == order

\* reversed(topo_sorted)
Reversed(order) == [i \in 1 .. Len(order) |-> order[Len(order) + 1 - i]]

\* self.grad += 1.0
SeedAccumulates(g) == QAdd(g, One)

\* self.grad = 1.0
SeedGrad(g) == One

\* for node in seq[i:]: node._backward().  A closure that raises ends the
\* loop and the call.
RECURSIVE Loop(_, _, _, _)
Loop(ns, seq, i, done) ==
    IF i > Len(seq) THEN [ns |-> ns, fired |-> done, err |-> ""]
    ELSE IF BackwardRaises(ns, seq[i])
    THEN [ns |-> ns, fired |-> Append(done, seq[i]), err |-> "ZeroDivisionError"]
    ELSE Loop(_backward(ns, seq[i]), seq, i + 1, Append(done, seq[i]))

\* A backward() that first sets every grad to 0.
backwardFromZero(ns, r, order) ==
    Loop([i \in DOMAIN ns |-> [ns[i] EXCEPT !.grad = IF i = r THEN One ELSE Zero]],
         Reversed(order), 1, <<>>)

\* r.backward() when build_topo leaves topo_sorted = order.
backward(ns, r, order) ==
    Loop([ns EXCEPT ![r].grad = SeedGrad(@)], Reversed(order), 1, <<>>)

(* ------------------------------ actions -------------------------------- *)

Handles == 1 .. Len(nodes)

Values == {Val(i) : i \in Handles}

Numbers == {Num(Q(c)) : c \in Scalars}

NoRef == [data |-> Zero, err |-> ""]

NoCall == [name |-> "", lhs |-> FALSE, rhs |-> FALSE, ref |-> NoRef]

\* The last call: its name, which operands were Values, and (ref) what the
\* same expression yields when the client wraps every number itself.
Call(name, x, y, ref) ==
    [name |-> name, lhs |-> x.isValue, rhs |-> y.isValue, ref |-> ref]

RefOf(r) ==
    [data |-> IF r.err = "" THEN r.ns[r.out].data ELSE Zero, err |-> r.err]

\* Value(x) <name> Value(y) for the numbers among x and y.
Explicit(name, x, y) ==
    LET wx == Coerce(nodes, x)
        wy == Coerce(wx.ns, y)
    IN  BinaryOp(name, wy.ns, Val(wx.id), Val(wy.id))

\* The data of the objects a call made are within the bound.
SmallData(r) == \A i \in (Len(nodes) + 1) .. Len(r.ns) : Small(r.ns[i].data)

\* The effect on the state of a forward call that yields r.
Yield(r, c) ==
    /\ SmallData(r)
    /\ nodes' = r.ns
    /\ err' = r.err
    /\ call' = c
    /\ root' = 0
    /\ fired' = <<>>
    /\ grad0' = <<>>
    /\ pass' = 0
    /\ UNCHANGED <<sig, nbw>>

\* The client's  x <name> y.
Binary(name, x, y) ==
    /\ x.isValue \/ y.isValue
    /\ Yield(BinaryOp(name, nodes, x, y),
             Call(name, x, y,
                  IF name = "**" THEN NoRef ELSE RefOf(Explicit(name, x, y))))

\* Value(v)
NewValue(v) ==
    Yield(Returned(Append(nodes, __init__(Q(v), {}, "")), Len(nodes) + 1),
          [NoCall EXCEPT !.name = "Value"])

AllZero == \A i \in Handles : nodes[i].grad = Zero

Grads == [i \in Handles |-> nodes[i].grad]

\* r.backward(), with build_topo taking one of its iteration orders.
CallBackward(r) ==
    /\ \E order \in TopoOrders(nodes, r) :
          LET b == backward(nodes, r, order)
          IN  /\ nodes' = b.ns
              /\ err' = b.err
              /\ fired' = b.fired
              /\ pass' = IF b.err # "" THEN 0
                         ELSE IF AllZero THEN 1
                         ELSE IF pass >= 1 /\ r = root THEN pass + 1
                         ELSE 0
    /\ root' = r
    /\ grad0' = Grads
    /\ call' = [NoCall EXCEPT !.name = "backward", !.lhs = TRUE]
    /\ nbw' = nbw + 1
    /\ UNCHANGED sig

(* A client that wraps its numbers itself and combines Values with +, * and
   **: every program that makes at most MaxNodes objects and calls backward()
   at most MaxBackward times. *)

Room == Len(nodes) < MaxNodes

Construct ==
    /\ Room
    /\ \E v \in LeafVals : NewValue(v)
    /\ UNCHANGED ncalls

Add ==
    /\ Room
    /\ \E x, y \in Values : Binary("+", x, y)
    /\ UNCHANGED ncalls

Mul ==
    /\ Room
    /\ \E x, y \in Values : Binary("*", x, y)
    /\ UNCHANGED ncalls

Pow ==
    /\ Room
    /\ \E x \in Values : \E k \in Exponents : Binary("**", x, Num(Q(k)))
    /\ UNCHANGED ncalls

Backward ==
    /\ nbw < MaxBackward
    /\ \E r \in Handles : CallBackward(r)
    /\ UNCHANGED ncalls

(* A client that uses the whole operator surface, numbers in place of Values
   and failing calls included: every program of at most MaxCalls calls. *)

More ==
    /\ ncalls < MaxCalls
    /\ ncalls' = ncalls + 1

Wrap == More /\ \E v \in LeafVals : NewValue(v)

Plus == More /\ \E x, y \in Values \cup Numbers : Binary("+", x, y)

Times == More /\ \E x, y \in Values \cup Numbers : Binary("*", x, y)

Minus == More /\ \E x, y \in Values \cup Numbers : Binary("-", x, y)

Divide == More /\ \E x, y \in Values \cup Numbers : Binary("/", x, y)

Power ==
    /\ More
    /\ \E x \in Values \cup Numbers :
          \E y \in Values \cup {Num(Q(k)) : k \in Exponents \cup {-1}} :
              Binary("**", x, y)

Negate ==
    /\ More
    /\ \E i \in Handles :
          Yield(__neg__(nodes, i), [NoCall EXCEPT !.name = "neg", !.lhs = TRUE])

Tanh ==
    /\ More
    /\ \E i \in Handles :
          /\ nodes[i].data = Zero
          /\ Yield(tanh(nodes, i), [NoCall EXCEPT !.name = "tanh", !.lhs = TRUE])

Exp ==
    /\ More
    /\ \E i \in Handles :
          /\ nodes[i].data = Zero
          /\ Yield(exp(nodes, i), [NoCall EXCEPT !.name = "exp", !.lhs = TRUE])

Differentiate == More /\ \E r \in Handles : CallBackward(r)

(* --------------------------- specifications ---------------------------- *)

InitWith(p) ==
    /\ nodes = <<>>
    /\ err = ""
    /\ call = NoCall
    /\ sig = p
    /\ root = 0
    /\ fired = <<>>
    /\ grad0 = <<>>
    /\ pass = 0
    /\ nbw = 0
    /\ ncalls = 0

Init == InitWith(0)

InitRound == InitWith(Precision)

Next ==
    \/ Construct
    \/ Add
    \/ Mul
    \/ Pow
    \/ Backward

NextOps ==
    \/ Wrap
    \/ Plus
    \/ Times
    \/ Minus
    \/ Divide
    \/ Power
    \/ Negate
    \/ Tanh
    \/ Exp
    \/ Differentiate

Spec == Init /\ [][Next]_vars

SpecRound == InitRound /\ [][Next]_vars

SpecOps == Init /\ [][NextOps]_vars

(* ------------------------- what the claims speak of -------------------- *)

\* The last call was a backward() and it returned.
Done == call.name = "backward" /\ err = ""

\* The nodes reachable from r through operands.
RECURSIVE Reach(_, _)
Reach(ns, r) == {r} \cup UNION {Reach(ns, p) : p \in ns[r].prev}

\* The operand slots of node c.
Slots(ns, c) ==
    CASE ns[c].op \in {"+", "*"} -> {"self", "other"}
      [] ns[c].op \in {"**", "tanh", "exp"} -> {"self"}
      [] OTHER -> {}

\* The local partial derivative of c's data in the operand of one slot.
Partial(ns, c, slot) ==
    CASE ns[c].op = "+" -> One
      [] ns[c].op = "*" ->
            IF slot = "self" THEN ns[ns[c].other].data ELSE ns[ns[c].self].data
      [] ns[c].op = "**" ->
            QMul(Q(ns[c].k), QPow(ns[ns[c].self].data, ns[c].k - 1))
      [] ns[c].op = "tanh" -> QSub(One, QMul(ns[c].data, ns[c].data))
      [] ns[c].op = "exp" -> ns[c].data

\* The uses of n as an operand by the nodes of R, one per operand slot.
Uses(ns, n, R) ==
    {u \in R \X {"self", "other"} : u[2] \in Slots(ns, u[1]) /\ ns[u[1]][u[2]] = n}

\* The sum over the uses U of local partial times the consumer's grad.
RECURSIVE ChainSum(_, _)
ChainSum(ns, U) ==
    IF U = {} THEN Zero
    ELSE LET u == CHOOSE x \in U : TRUE
         IN  QAdd(QMul(Partial(ns, u[1], u[2]), ns[u[1]].grad),
                  ChainSum(ns, U \ {u}))

\* The objects as the last call, a backward(), found them.
Before == [i \in Handles |-> [nodes[i] EXCEPT !.grad = grad0[i]]]

\* Node i is in both node sequences with the same fields but perhaps grad.
SameButGrad(old, new, i) ==
    /\ i <= Len(new)
    /\ [new[i] EXCEPT !.grad = Zero] = [old[i] EXCEPT !.grad = Zero]

\* How many times n occurs in seq.
Count(seq, n) == Cardinality({i \in 1 .. Len(seq) : seq[i] = n})

\* a = Value(2.0); b = Value(3.0); c = a * b + b ** 2
Example ==
    LET ab == __mul__(<<__init__(Q(2), {}, ""), __init__(Q(3), {}, "")>>, 1, Val(2))
        b2 == __pow__(ab.ns, 2, Num(Q(2)))
    IN  __add__(b2.ns, ab.out, Val(b2.out))

(* -------------------------------- claims ------------------------------- *)

\* C1 (example): c.backward() on the example returns with c.data = 15,
\* a.grad = 3 and b.grad = 8, whichever order build_topo iterates in.
ExampleGrads ==
    \A order \in TopoOrders(Example.ns, Example.out) :
        LET b == backward(Example.ns, Example.out, order)
        IN  /\ b.err = ""
            /\ b.ns[Example.out].data = Q(15)
            /\ b.ns[1].grad = Q(3)
            /\ b.ns[2].grad = Q(8)

C2_ConsumersFirst ==
    call.name = "backward" =>
        \A i, j \in 1 .. Len(fired) :
            fired[j] \in nodes[fired[i]].prev => i < j

\* A backward() over a diamond: a node with two operands that share an
\* operand, so that the second operand is reached after the shared one.
C2_Witness ==
    /\ Done
    /\ \E i, j, k \in 1 .. Len(fired) :
          /\ fired[i] # fired[j]
          /\ {fired[i], fired[j]} \subseteq nodes[root].prev
          /\ fired[k] \in nodes[fired[i]].prev \cap nodes[fired[j]].prev

C4_SquareByMul ==
    (/\ Done /\ pass = 1
     /\ nodes[root].op = "*"
     /\ nodes[root].self = nodes[root].other) =>
        nodes[nodes[root].self].grad = QMul(Q(2), nodes[nodes[root].self].data)

\* c.backward() has returned for c = a * a with a a leaf of non-zero data.
C4_Witness ==
    /\ Done /\ pass = 1
    /\ nodes[root].op = "*"
    /\ nodes[root].self = nodes[root].other
    /\ nodes[root].prev = {nodes[root].self}
    /\ nodes[nodes[root].self].op = ""
    /\ nodes[nodes[root].self].data # Zero
    /\ nodes[nodes[root].self].grad # nodes[nodes[root].self].data

C9_RootGradOne == Done => nodes[root].grad = One

\* backward() has returned at a root whose grad was neither 0 nor 1, left
\* by a backward() that started at another node.
C9_Witness ==
    /\ Done
    /\ grad0[root] \notin {Zero, One}
    /\ nbw = 2

\* C6: a ** e with e a Value raises AssertionError, constructs nothing and
\* leaves every existing object as it was.
C6_PowerRejectsValue ==
    [][call'.name = "**" /\ call'.lhs /\ call'.rhs =>
          err' = "AssertionError" /\ nodes' = nodes]_vars

\* a ** e with e a Value has been called on objects of which one has a
\* non-zero grad.
C6_Witness ==
    /\ call.name = "**" /\ call.lhs /\ call.rhs
    /\ err = "AssertionError"
    /\ \E i \in Handles : nodes[i].grad # Zero

\* C7 as stated: +, *, - and / with a number as the left or the right
\* operand return what they return when the client wraps the number itself.
C7_NumberEitherSide ==
    call.name \in {"+", "*", "-", "/"} /\ ~(call.lhs /\ call.rhs) =>
        /\ err = call.ref.err
        /\ err = "" => nodes[Len(nodes)].data = call.ref.data

\* C8 as stated: when r.backward() returns, every order build_topo could
\* have iterated in, from the same objects, ends with the same objects.
C8_OrderIndependent ==
    Done =>
        \A order \in TopoOrders(Before, root) :
            backward(Before, root, order).ns = nodes

\* C10: no call removes an object or changes the data, _prev, _op or captured
\* operands of one; a grad changes only in a backward(), and only on a node
\* reachable from its root.
C10_Frame ==
    [][\A i \in Handles :
          /\ SameButGrad(nodes, nodes', i)
          /\ nodes'[i].grad # nodes[i].grad =>
                call'.name = "backward" /\ i \in Reach(nodes, root')]_vars

\* A backward() has returned that does not reach a node of non-zero grad,
\* an operand of an operation.
C10_Witness ==
    /\ Done
    /\ \E i \in Handles \ Reach(nodes, root) :
          /\ nodes[i].grad # Zero
          /\ \E j \in Handles : i \in nodes[j].prev

====
